---- MODULE Spec2Model ----
(***************************************************************************)
(* The repository-ingestion cache-and-gate layer of answergit:             *)
(*   lib/gitingest_service.py            (behind the CLI bridge, "lib")    *)
(*   gitingest-api/gitingest_service.py  (the HTTP service, "api")         *)
(* Both modules compute CACHE_DIR as <repository root>/cache and name the  *)
(* record of a repository <username>_<repo>_gitingest.json, so the two     *)
(* implementations share one cache store.                                  *)
(*                                                                         *)
(* Text is modelled by TLA+ strings and the Python string operations by    *)
(* operators over them (Len, SubSeq and \o work on strings in TLC).        *)
(*                                                                         *)
(* Specifications: Spec runs calls concurrently, on the repository         *)
(* identities that share one cache file and within one reading of the      *)
(* clock; SpecSeq runs one call at a time, on every identity, with every   *)
(* answer of the collaborators and with the clock advancing; SpecStore     *)
(* does so on a cache directory left by earlier processes; SpecLive adds   *)
(* to concurrent calls the fairness of the steps the calls wait for.       *)
(***************************************************************************)
EXTENDS Integers, Sequences, FiniteSets, TLC

(***************************************************************************)
(* Bounds of the model.                                                    *)
(***************************************************************************)
\* number of get_repo_data calls that may be in flight at the same time
NumCalls == 2
\* number of get_repo_data calls made in a run
MaxCalls == 2
\* number of clock ticks after which the clock stops
MaxTicks == 2

(***************************************************************************)
(* Program constants.                                                      *)
(***************************************************************************)
CACHE_EXPIRATION == 6 * 60 * 60

\* the ceiling of the size gate, in the "K" unit of the summary
TokenLimit == 750

(***************************************************************************)
(* Python string operations.                                               *)
(***************************************************************************)
\* p in s
Contains(s, p) ==
    \E i \in 1..(Len(s) - Len(p) + 1) : SubSeq(s, i, i + Len(p) - 1) = p

\* s.endswith(p)
EndsWith(s, p) ==
    /\ Len(s) >= Len(p)
    /\ SubSeq(s, Len(s) - Len(p) + 1, Len(s)) = p

LowerMap ==
    [c \in {"A", "B", "C", "D", "E", "F", "G", "H", "I", "J", "K", "L", "M",
            "N", "O", "P", "Q", "R", "S", "T", "U", "V", "W", "X", "Y", "Z"} |->
        CASE c = "A" -> "a" [] c = "B" -> "b" [] c = "C" -> "c" [] c = "D" -> "d"
          [] c = "E" -> "e" [] c = "F" -> "f" [] c = "G" -> "g" [] c = "H" -> "h"
          [] c = "I" -> "i" [] c = "J" -> "j" [] c = "K" -> "k" [] c = "L" -> "l"
          [] c = "M" -> "m" [] c = "N" -> "n" [] c = "O" -> "o" [] c = "P" -> "p"
          [] c = "Q" -> "q" [] c = "R" -> "r" [] c = "S" -> "s" [] c = "T" -> "t"
          [] c = "U" -> "u" [] c = "V" -> "v" [] c = "W" -> "w" [] c = "X" -> "x"
          [] c = "Y" -> "y" [] c = "Z" -> "z"]

\* s.lower()
RECURSIVE Lower(_)
Lower(s) ==
    IF Len(s) = 0 THEN ""
    ELSE LET c == SubSeq(s, 1, 1)
         IN  (IF c \in DOMAIN LowerMap THEN LowerMap[c] ELSE c)
                 \o Lower(SubSeq(s, 2, Len(s)))

Whitespace == {" ", "\n", "\t", "\r"}

\* s.strip()
RECURSIVE Strip(_)
Strip(s) ==
    IF Len(s) = 0 THEN s
    ELSE IF SubSeq(s, 1, 1) \in Whitespace THEN Strip(SubSeq(s, 2, Len(s)))
    ELSE IF SubSeq(s, Len(s), Len(s)) \in Whitespace
         THEN Strip(SubSeq(s, 1, Len(s) - 1))
    ELSE s

\* s.split(sep)[-1]: what follows the last occurrence of sep (all of s when
\* sep does not occur)
SplitLast(s, sep) ==
    LET at == {i \in 1..(Len(s) - Len(sep) + 1) :
                  SubSeq(s, i, i + Len(sep) - 1) = sep}
    IN  IF at = {} THEN s
        ELSE LET last == CHOOSE i \in at : \A j \in at : j <= i
             IN  SubSeq(s, last + Len(sep), Len(s))

Digits == {"0", "1", "2", "3", "4", "5", "6", "7", "8", "9"}

DigitVal(c) ==
    CASE c = "0" -> 0 [] c = "1" -> 1 [] c = "2" -> 2 [] c = "3" -> 3
      [] c = "4" -> 4 [] c = "5" -> 5 [] c = "6" -> 6 [] c = "7" -> 7
      [] c = "8" -> 8 [] c = "9" -> 9

AllDigits(s) == \A i \in 1..Len(s) : SubSeq(s, i, i) \in Digits

RECURSIVE DigitsValue(_)
DigitsValue(s) ==
    IF Len(s) = 0 THEN 0
    ELSE 10 * DigitsValue(SubSeq(s, 1, Len(s) - 1))
            + DigitVal(SubSeq(s, Len(s), Len(s)))

RECURSIVE Pow10(_)
Pow10(n) == IF n = 0 THEN 1 ELSE 10 * Pow10(n - 1)

\* float(s) for the decimal literals <digits>[.<digits>]: the value is
\* num / den. Any other text makes float raise ValueError (ok = FALSE).
ParseFloat(s) ==
    LET dots == {i \in 1..Len(s) : SubSeq(s, i, i) = "."}
        dot  == IF dots = {} THEN Len(s) + 1 ELSE CHOOSE i \in dots : TRUE
        ip   == SubSeq(s, 1, dot - 1)
        fp   == SubSeq(s, dot + 1, Len(s))
    IN  IF /\ Cardinality(dots) <= 1
           /\ AllDigits(ip) /\ AllDigits(fp)
           /\ Len(ip) + Len(fp) > 0
        THEN [ok  |-> TRUE,
              num |-> DigitsValue(ip) * Pow10(Len(fp)) + DigitsValue(fp),
              den |-> Pow10(Len(fp))]
        ELSE [ok |-> FALSE, num |-> 0, den |-> 1]

(***************************************************************************)
(* Exceptions and the outcomes of the external collaborators.              *)
(***************************************************************************)
\* an exception: its class and str(e)
Exc(t, m) == [type |-> t, msg |-> m]
ValueErr(m) == Exc("ValueError", m)
NoExc == Exc("", "")

NoTriple == [summary |-> "", tree |-> "", content |-> ""]

\* what `await ingest_async(...)` does: it returns (summary, tree, content)
\* or raises
Returned(t) == [kind |-> "return", triple |-> t, exc |-> NoExc]
Raised(e) == [kind |-> "raise", triple |-> NoTriple, exc |-> e]

\* what `await session.get(api_url)` does: it answers with a status, or
\* raises (timeout, DNS failure, connection refused)
GetAnswers ==
    {[kind |-> "status", status |-> 200],
     [kind |-> "status", status |-> 404],
     [kind |-> "status", status |-> 403],
     [kind |-> "raise", status |-> 0]}

\* a check that takes every answer of the server for existence
CheckRepoExistsAnyStatus(answer) == answer.kind # "raise"

\* a check that takes a failure of the GET for existence
CheckRepoExistsUnlessRefused(answer) ==
    IF answer.kind = "raise" THEN TRUE ELSE answer.status = 200

\* the answers the calls meet when they run concurrently
CoreAnswers ==
    {[kind |-> "status", status |-> 200],
     [kind |-> "status", status |-> 404]}

\* check_repo_exists, given what the GET did
CheckRepoExists(answer) ==
    IF answer.kind = "raise" THEN FALSE ELSE answer.status = 200

(***************************************************************************)
(* ingest_repo of lib/gitingest_service.py.                                *)
(***************************************************************************)
\* a gate that also rejects the ceiling itself
SizeGateAtLeast(summary) ==
    IF ~Contains(summary, "Estimated tokens: ") THEN NoExc
    ELSE LET tokens_str == Strip(SplitLast(summary, "Estimated tokens: "))
         IN  IF EndsWith(tokens_str, "M") THEN ValueErr("error:repo_too_large")
             ELSE IF EndsWith(tokens_str, "K")
             THEN LET text   == SubSeq(tokens_str, 1, Len(tokens_str) - 1)
                      tokens == ParseFloat(text)
                  IN  IF ~tokens.ok
                      THEN ValueErr("could not convert string to float: '"
                                        \o text \o "'")
                      ELSE IF tokens.num >= TokenLimit * tokens.den
                      THEN ValueErr("error:repo_too_large")
                      ELSE NoExc
             ELSE NoExc

\* the size gate: the exception it raises inside the try block, NoExc when
\* it lets the summary pass
SizeGate(summary) ==
    IF ~Contains(summary, "Estimated tokens: ") THEN NoExc
    ELSE LET tokens_str == Strip(SplitLast(summary, "Estimated tokens: "))
         IN  IF EndsWith(tokens_str, "M") THEN ValueErr("error:repo_too_large")
             ELSE IF EndsWith(tokens_str, "K")
             THEN LET text   == SubSeq(tokens_str, 1, Len(tokens_str) - 1)
                      tokens == ParseFloat(text)
                  IN  IF ~tokens.ok
                      THEN ValueErr("could not convert string to float: '"
                                        \o text \o "'")
                      ELSE IF tokens.num > TokenLimit * tokens.den
                      THEN ValueErr("error:repo_too_large")
                      ELSE NoExc
             ELSE NoExc

\* the except clause: what leaves ingest_repo when e was raised in the try
ExceptClause(e) ==
    IF Contains(e.msg, "Repository not found") \/ Contains(e.msg, "Not Found")
    THEN ValueErr("error:repo_not_found")
    ELSE IF \/ Contains(e.msg, "Bad credentials")
            \/ Contains(e.msg, "API rate limit exceeded")
    THEN ValueErr("error:repo_private")
    ELSE e

\* ingest_repo from the return of ingest_async on
IngestRepo(outcome) ==
    LET raisedInTry == IF outcome.kind = "raise" THEN outcome.exc
                       ELSE SizeGate(outcome.triple.summary)
    IN  IF raisedInTry = NoExc THEN Returned(outcome.triple)
        ELSE Raised(ExceptClause(raisedInTry))

(***************************************************************************)
(* ingest_repo of gitingest-api/gitingest_service.py.                      *)
(***************************************************************************)
SizeGateApi(summary) ==
    IF ~Contains(summary, "Estimated tokens: ") THEN NoExc
    ELSE LET tokens_str == Strip(SplitLast(summary, "Estimated tokens: "))
             text       == SubSeq(tokens_str, 1, Len(tokens_str) - 1)
         IN  IF EndsWith(tokens_str, "M") THEN ValueErr("error:repo_too_large")
             ELSE IF ~EndsWith(tokens_str, "K") THEN NoExc
             ELSE IF ~ParseFloat(text).ok
             THEN ValueErr("could not convert string to float: '"
                               \o text \o "'")
             ELSE IF ParseFloat(text).num > TokenLimit * ParseFloat(text).den
             THEN ValueErr("error:repo_too_large")
             ELSE NoExc

ExceptClauseApi(e) ==
    LET msg == e.msg
    IN  IF Contains(Lower(msg), "not found")
        THEN ValueErr("error:repo_not_found")
        ELSE IF \/ Contains(Lower(msg), "bad credentials")
                \/ Contains(Lower(msg), "rate limit")
        THEN ValueErr("error:repo_private")
        ELSE ValueErr("processing_error: " \o msg)

IngestRepoApi(outcome) ==
    LET raisedInTry == IF outcome.kind = "raise" THEN outcome.exc
                       ELSE SizeGateApi(outcome.triple.summary)
    IN  IF raisedInTry = NoExc THEN Returned(outcome.triple)
        ELSE Raised(ExceptClauseApi(raisedInTry))

(***************************************************************************)
(* The cache store: one file per get_cache_path, shared by both            *)
(* implementations and by every process.                                   *)
(***************************************************************************)
\* the repository identities (username, repo) of the model
Keys == {<<"a_b", "c">>, <<"a", "b_c">>, <<"a", "c">>}

get_cache_path(username, repo) ==
    "cache/" \o username \o "_" \o repo \o "_gitingest.json"

Paths == {get_cache_path(k[1], k[2]) : k \in Keys}

\* the identities whose calls are run concurrently
RaceKeys ==
    {k \in Keys : get_cache_path(k[1], k[2]) = get_cache_path("a_b", "c")}

NoData == [summary |-> "", tree |-> "", content |-> "", timestamp |-> 0]

(* The text json.dump produces reaches the file through a buffered writer   *)
(* in several write calls. The model cuts it in two blocks, the head         *)
(* (summary and tree) and the tail (content and timestamp); a hole is what   *)
(* a write beyond the end of the file leaves before it.                      *)
Hole == [part |-> "hole", s1 |-> "", s2 |-> "", n |-> 0]

(* The cache directory outlives the processes, so a record may also hold    *)
(* text that no save_to_cache of this program completed. Two more pieces    *)
(* of text spell such records: the opening brace alone, and the closing     *)
(* brace alone (a head ends before the comma that precedes "content").      *)
OpenBrace == [part |-> "open", s1 |-> "", s2 |-> "", n |-> 0]
CloseBrace == [part |-> "close", s1 |-> "", s2 |-> "", n |-> 0]

\* the dict with no key, {}
EmptyDict == [k \in {} |-> ""]

\* a dump that leaves the timestamp out
json_dump_no_timestamp(data) ==
    << [part |-> "head", s1 |-> data.summary, s2 |-> data.tree, n |-> 0],
       [part |-> "tail", s1 |-> data.content, s2 |-> "", n |-> 0] >>

json_dump(data) ==
    << [part |-> "head", s1 |-> data.summary, s2 |-> data.tree, n |-> 0],
       [part |-> "tail", s1 |-> data.content, s2 |-> "", n |-> data.timestamp] >>

\* json.load: the dict read (a function from its keys), or ok = FALSE where
\* it raises
json_load(blocks) ==
    IF /\ Len(blocks) = Len(json_dump(NoData))
       /\ blocks[1].part = "head"
       /\ blocks[Len(blocks)].part = "tail"
    THEN [ok   |-> TRUE,
          data |-> [summary   |-> blocks[1].s1,
                    tree      |-> blocks[1].s2,
                    content   |-> blocks[Len(blocks)].s1,
                    timestamp |-> blocks[Len(blocks)].n]]
    ELSE IF /\ Len(blocks) = 2
            /\ blocks[1].part = "head"
            /\ blocks[2] = CloseBrace
    THEN [ok   |-> TRUE,
          data |-> [summary |-> blocks[1].s1, tree |-> blocks[1].s2]]
    ELSE IF blocks = <<OpenBrace, CloseBrace>>
    THEN [ok |-> TRUE, data |-> EmptyDict]
    ELSE [ok |-> FALSE, data |-> NoData]

NoFile == [exists |-> FALSE, blocks |-> << >>, mtime |-> 0]

\* open(cache_path, 'w') at time t: the file is created or truncated
OpenW(t) == [exists |-> TRUE, blocks |-> << >>, mtime |-> t]

\* a read that renews the record
OpenRTouching(file, t) == [file EXCEPT !.mtime = t]

\* open(cache_path, 'r') at time t, read and close: the file and its
\* modification time are left as they are
OpenR(file, t) == file

\* one write call of block blk at block offset off, at time t
WriteAt(file, off, blk, t) ==
    [exists |-> TRUE,
     blocks |-> [i \in 1..(IF Len(file.blocks) > off THEN Len(file.blocks)
                           ELSE off + 1) |->
                    IF i = off + 1 THEN blk
                    ELSE IF i <= Len(file.blocks) THEN file.blocks[i]
                    ELSE Hole],
     mtime  |-> t]

\* an expiry test that still serves a record aged exactly CACHE_EXPIRATION
is_cache_valid_inclusive(file, t) ==
    /\ file.exists
    /\ (t - file.mtime) <= CACHE_EXPIRATION

is_cache_valid(file, t) ==
    /\ file.exists
    /\ (t - file.mtime) < CACHE_EXPIRATION

\* None
Absent == [found |-> FALSE, data |-> NoData]

load_from_cache(file, t) ==
    IF ~is_cache_valid(file, t) THEN Absent
    ELSE IF json_load(file.blocks).ok
         THEN [found |-> TRUE, data |-> json_load(file.blocks).data]
         ELSE Absent

\* `if cached_data:` a dict is true unless it has no key
Truthy(cached_data) ==
    /\ cached_data.found
    /\ DOMAIN cached_data.data # {}

(***************************************************************************)
(* What the external ingestion library may answer.                         *)
(***************************************************************************)
\* Summaries, each with what its token line says: whether the label is
\* there, the suffix, the value num/den (numeric = FALSE: the value is no
\* number), and whether the token line is the last line of the summary.
SummaryCase(text, label, suffix, numeric, num, den, last) ==
    [text |-> text, label |-> label, suffix |-> suffix, numeric |-> numeric,
     num |-> num, den |-> den, last |-> last]

SummaryCases ==
    {SummaryCase("Files: 3\nEstimated tokens: 2M", TRUE, "M", TRUE, 2, 1, TRUE),
     SummaryCase("Estimated tokens: 1.5M\n", TRUE, "M", TRUE, 15, 10, TRUE),
     SummaryCase("Estimated tokens: 800K", TRUE, "K", TRUE, 800, 1, TRUE),
     SummaryCase("Estimated tokens: 750K", TRUE, "K", TRUE, 750, 1, TRUE),
     SummaryCase("Files: 3\nEstimated tokens: 500K", TRUE, "K", TRUE, 500, 1, TRUE),
     SummaryCase("Estimated tokens: 750.5K", TRUE, "K", TRUE, 7505, 10, TRUE),
     SummaryCase("Estimated tokens: 900", TRUE, "", TRUE, 900, 1, TRUE),
     SummaryCase("Files: 3", FALSE, "", FALSE, 0, 1, FALSE),
     SummaryCase("Estimated tokens: 2M\nFiles: 3", TRUE, "M", TRUE, 2, 1, FALSE),
     SummaryCase("Estimated tokens: ?K", TRUE, "K", FALSE, 0, 1, TRUE)}

CaseOf(summary) == CHOOSE sc \in SummaryCases : sc.text = summary

\* the exceptions ingest_async raises
IngestErrors ==
    {Exc("ValueError", "Repository not found"),
     Exc("ClientError", "404 Not Found"),
     Exc("ValueError", "repository not found"),
     Exc("HTTPError", "Bad credentials"),
     Exc("HTTPError", "bad credentials"),
     Exc("HTTPError", "BAD CREDENTIALS"),
     Exc("HTTPError", "API rate limit exceeded"),
     Exc("HTTPError", "rate limit reached"),
     Exc("HTTPError", "Bad credentials: Repository not found"),
     Exc("HTTPError", "Bad credentials: repository not found"),
     Exc("OSError", "Connection reset")}

\* the repository as it is after a push: another tree and other content
Pushed == Returned([summary |-> "Files: 3", tree |-> "lib/", content |-> "text"])

IngestOutcomes ==
    {Returned([summary |-> sc.text, tree |-> "src/", content |-> "code"]) :
        sc \in SummaryCases}
      \cup {Pushed}
      \cup {Raised(e) : e \in IngestErrors}

\* the outcomes the calls meet when they run concurrently
CoreOutcomes ==
    {Returned([summary |-> text, tree |-> "src/", content |-> "code"]) :
        text \in {"Estimated tokens: 750K",
                  "Files: 3\nEstimated tokens: 2M"}}
      \cup {Pushed}
      \cup {Raised(Exc("OSError", "Connection reset"))}

Impls == {"lib", "api"}

\* ingest_repo of each implementation on each outcome, computed once
IngestTable ==
    [impl \in Impls |-> [o \in IngestOutcomes |->
        IF impl = "lib" THEN IngestRepo(o) ELSE IngestRepoApi(o)]]

(***************************************************************************)
(* The state.                                                              *)
(***************************************************************************)
VARIABLES
    now,     \* time.time(), in seconds
    ticks,   \* how often the clock has advanced
    files,   \* the cache directory: the file at each path
    calls,   \* the get_repo_data calls in flight
    started  \* how many get_repo_data calls were made

vars == <<now, ticks, files, calls, started>>

Calls == 1..NumCalls

NoResult == [kind |-> "none", data |-> NoData, exc |-> NoExc]
ReturnData(d) == [kind |-> "return", data |-> d, exc |-> NoExc]
RaiseExc(e) == [kind |-> "raise", data |-> NoData, exc |-> e]

(* A call: where it stands (pc), its arguments, and a record of what it    *)
(* did: the cache read of its first lines (read) and what the cache store  *)
(* served for its key when it started (seen), the external operations it   *)
(* invoked, in order (ext), what the GET and ingest_async answered         *)
(* (answer, outcome), the repo_data it built (data), its file offset       *)
(* (off), the number of times it modified a cache file (wrote), and how    *)
(* it ends (result).                                                       *)
Idle ==
    [pc |-> "idle", impl |-> "", username |-> "", repo |-> "",
     force_refresh |-> FALSE, read |-> FALSE, seen |-> Absent, ext |-> << >>,
     answer |-> [kind |-> "none", status |-> 0],
     outcome |-> Raised(NoExc), data |-> NoData, off |-> 0, wrote |-> 0,
     result |-> NoResult]

Init ==
    /\ now = 0
    /\ ticks = 0
    /\ files = [p \in Paths |-> NoFile]
    /\ calls = [c \in Calls |-> Idle]
    /\ started = 0

PathOf(c) == get_cache_path(calls[c].username, calls[c].repo)

(* The calls of the HTTP service run as coroutines of one event loop: one  *)
(* of them runs from a suspension point (an await) to the next without     *)
(* another one running. Each call of the CLI bridge is a process of its    *)
(* own. Loop(c, impl): a step of call c may run now.                       *)
Loop(c, impl) ==
    impl = "api" =>
        \A d \in Calls \ {c} :
            ~(calls[d].impl = "api" /\ calls[d].pc = "write")

(***************************************************************************)
(* get_repo_data.                                                          *)
(***************************************************************************)
\* a lookup that never uses the cache
CacheLookupNever(force_refresh, file, t) ==
    [read |-> FALSE, cached_data |-> Absent]

\* a lookup that ignores force_refresh
CacheLookupAlways(force_refresh, file, t) ==
    [read |-> TRUE, cached_data |-> load_from_cache(file, t)]

\* its first lines: the cache is consulted unless force_refresh
CacheLookup(force_refresh, file, t) ==
    IF ~force_refresh
    THEN [read |-> TRUE, cached_data |-> load_from_cache(file, t)]
    ELSE [read |-> FALSE, cached_data |-> Absent]

\* a get_repo_data that saves what ingest_async returned before the size
\* gate and the failure classification are looked at
AfterIngestSavesFirst(impl, outcome, t) ==
    LET r == IngestTable[impl][outcome]
        repo_data == [summary   |-> outcome.triple.summary,
                      tree      |-> outcome.triple.tree,
                      content   |-> outcome.triple.content,
                      timestamp |-> t]
    IN  IF r.kind = "raise"
        THEN [save |-> outcome.kind = "return", data |-> repo_data,
              result |-> RaiseExc(r.exc)]
        ELSE [save |-> TRUE, data |-> repo_data, result |-> ReturnData(repo_data)]

\* the lines after `await ingest_repo(repo_url)`: whether save_to_cache is
\* called (save), the repo_data built and how the call will end
AfterIngest(impl, outcome, t) ==
    LET r == IngestTable[impl][outcome]
        repo_data == [summary   |-> r.triple.summary,
                      tree      |-> r.triple.tree,
                      content   |-> r.triple.content,
                      timestamp |-> t]
    IN  IF r.kind = "raise"
        THEN [save |-> FALSE, data |-> NoData, result |-> RaiseExc(r.exc)]
        ELSE [save |-> TRUE, data |-> repo_data, result |-> ReturnData(repo_data)]

(* The call starts. On a hit (`if cached_data:`) it returns at once;         *)
(* load_from_cache opens the record for reading when is_cache_valid holds;   *)
(* otherwise it enters ingest_repo, which issues the GET of                 *)
(* check_repo_exists and awaits it. seen records what the cache store would *)
(* serve for the key at this moment. The calls in flight are told apart by  *)
(* their place in calls only, and a new call takes the first free place.    *)
GetRepoData(c, impl, username, repo, force_refresh) ==
    /\ calls[c].pc = "idle"
    /\ \A d \in Calls : d < c => calls[d].pc # "idle"
    /\ started < MaxCalls
    /\ started' = started + 1
    /\ Loop(c, impl)
    /\ LET file   == files[get_cache_path(username, repo)]
           lookup == CacheLookup(force_refresh, file, now)
           call   == [Idle EXCEPT !.impl = impl, !.username = username,
                                  !.repo = repo,
                                  !.force_refresh = force_refresh,
                                  !.read = lookup.read,
                                  !.seen = load_from_cache(file, now)]
       IN  calls' = [calls EXCEPT ![c] =
               IF Truthy(lookup.cached_data)
               THEN [call EXCEPT !.pc = "done",
                                 !.result = ReturnData(lookup.cached_data.data)]
               ELSE [call EXCEPT !.pc = "check",
                                 !.ext = <<"check_repo_exists">>]]
    /\ files' = IF ~force_refresh /\ is_cache_valid(files[get_cache_path(username, repo)], now)
                THEN [files EXCEPT ![get_cache_path(username, repo)] = OpenR(@, now)]
                ELSE files
    /\ UNCHANGED <<now, ticks>>

\* an existence check that issues the GET again when it failed
ExistsAnswerRetrying(c, answer) ==
    /\ calls[c].pc = "check"
    /\ Loop(c, calls[c].impl)
    /\ calls' = [calls EXCEPT ![c] =
           IF answer.kind = "raise"
           THEN [@ EXCEPT !.answer = answer]
           ELSE IF ~CheckRepoExists(answer)
           THEN [@ EXCEPT !.pc = "done", !.answer = answer,
                          !.result = RaiseExc(ValueErr("error:repo_not_found"))]
           ELSE [@ EXCEPT !.pc = "ingest", !.answer = answer,
                          !.ext = Append(@, "ingest_async")]]
    /\ UNCHANGED <<now, ticks, files, started>>

\* the GET of check_repo_exists completes; ingest_repo raises or calls
\* ingest_async and awaits it
ExistsAnswer(c, answer) ==
    /\ calls[c].pc = "check"
    /\ Loop(c, calls[c].impl)
    /\ calls' = [calls EXCEPT ![c] =
           IF ~CheckRepoExists(answer)
           THEN [@ EXCEPT !.pc = "done", !.answer = answer,
                          !.result = RaiseExc(ValueErr("error:repo_not_found"))]
           ELSE [@ EXCEPT !.pc = "ingest", !.answer = answer,
                          !.ext = Append(@, "ingest_async")]]
    /\ UNCHANGED <<now, ticks, files, started>>

\* ingest_async completes; the rest of ingest_repo and of get_repo_data up
\* to the first effect of save_to_cache, open(cache_path, 'w')
IngestAnswer(c, outcome) ==
    /\ calls[c].pc = "ingest"
    /\ Loop(c, calls[c].impl)
    /\ LET after == AfterIngest(calls[c].impl, outcome, now)
       IN  /\ calls' = [calls EXCEPT ![c] =
                  [@ EXCEPT !.pc = IF after.save THEN "write" ELSE "done",
                            !.outcome = outcome,
                            !.data = after.data,
                            !.off = 0,
                            !.wrote = IF after.save THEN @ + 1 ELSE @,
                            !.result = after.result]]
           /\ files' = IF after.save
                       THEN [files EXCEPT ![PathOf(c)] = OpenW(now)]
                       ELSE files
    /\ UNCHANGED <<now, ticks, started>>

\* save_to_cache: json.dump, one write call of the buffered writer; after
\* the last one the file is closed and get_repo_data returns repo_data
SaveWrite(c) ==
    /\ calls[c].pc = "write"
    /\ LET text == json_dump(calls[c].data)
           off  == calls[c].off
       IN  /\ files' = [files EXCEPT ![PathOf(c)] =
                  WriteAt(@, off, text[off + 1], now)]
           /\ calls' = [calls EXCEPT ![c] =
                  [@ EXCEPT !.pc = IF off + 1 = Len(text) THEN "done" ELSE "write",
                            !.off = off + 1, !.wrote = @ + 1]]
    /\ UNCHANGED <<now, ticks, started>>

\* collect_repo_data of gitingest-api/main.py around get_repo_data, for a
\* request with username and repo: the status of the HTTP response
collect_repo_data(result) ==
    IF result.kind = "return"
    THEN IF {"summary", "tree", "content"} \subseteq DOMAIN result.data
         THEN 200 ELSE 500
    ELSE IF result.exc.type # "ValueError" THEN 500
    ELSE CASE result.exc.msg = "error:missing_parameters" -> 400
           [] result.exc.msg = "error:repo_not_found" -> 404
           [] result.exc.msg = "error:repo_private" -> 403
           [] result.exc.msg = "error:rate_limit_exceeded" -> 429
           [] result.exc.msg = "error:repo_too_large" -> 400
           [] result.exc.msg = "error:invalid_response" -> 500
           [] OTHER -> 500

\* the caller has taken the result
Return(c) ==
    /\ calls[c].pc = "done"
    /\ calls' = [calls EXCEPT ![c] = Idle]
    /\ UNCHANGED <<now, ticks, files, started>>

\* time passes: the clock is looked at one second before each multiple of
\* the expiration time and at the multiple itself
Tick ==
    /\ ticks < MaxTicks
    /\ now' = IF ticks % 2 = 0 THEN now + CACHE_EXPIRATION - 1 ELSE now + 1
    /\ ticks' = ticks + 1
    /\ UNCHANGED <<files, calls, started>>

\* the other calls are idle
Alone(c) == \A d \in Calls \ {c} : calls[d].pc = "idle"

\* concurrent calls for the repository identities that share a cache file,
\* racing within one reading of the clock
Next ==
    \/ \E c \in Calls, impl \in Impls, k \in RaceKeys, f \in BOOLEAN :
           GetRepoData(c, impl, k[1], k[2], f)
    \/ \E c \in Calls, answer \in CoreAnswers : ExistsAnswer(c, answer)
    \/ \E c \in Calls, outcome \in CoreOutcomes : IngestAnswer(c, outcome)
    \/ \E c \in Calls : SaveWrite(c)
    \/ \E c \in Calls : Return(c)

Spec == Init /\ [][Next]_vars

\* one call at a time, ingest_async answering with every outcome
NextSeq ==
    \/ \E c \in Calls, impl \in Impls, k \in Keys, f \in BOOLEAN :
           Alone(c) /\ GetRepoData(c, impl, k[1], k[2], f)
    \/ \E c \in Calls, answer \in GetAnswers : ExistsAnswer(c, answer)
    \/ \E c \in Calls, outcome \in IngestOutcomes : IngestAnswer(c, outcome)
    \/ \E c \in Calls : SaveWrite(c)
    \/ \E c \in Calls : Return(c)
    \/ Tick

SpecSeq == Init /\ [][NextSeq]_vars

(***************************************************************************)
(* Progress. session.get is called on a ClientSession built without        *)
(* arguments, so the timeout of the GET is the session default of aiohttp  *)
(* (ClientTimeout(total=300)): the await ends with a response or with an   *)
(* exception. ingest_async is taken to return or raise. The writes of      *)
(* save_to_cache are local file operations of a running process.           *)
(***************************************************************************)
\* the GET answers with status 200 or ends in the timeout
LiveAnswers ==
    {[kind |-> "status", status |-> 200], [kind |-> "raise", status |-> 0]}

\* ingest_async returns or raises
LiveOutcomes == {Pushed, Raised(Exc("OSError", "Connection reset"))}

\* concurrent calls for one repository
NextLive ==
    \/ \E c \in Calls, impl \in Impls, f \in BOOLEAN :
           GetRepoData(c, impl, "a", "c", f)
    \/ \E c \in Calls, answer \in LiveAnswers : ExistsAnswer(c, answer)
    \/ \E c \in Calls, outcome \in LiveOutcomes : IngestAnswer(c, outcome)
    \/ \E c \in Calls : SaveWrite(c)
    \/ \E c \in Calls : Return(c)

SpecLive ==
    /\ Init
    /\ [][NextLive]_vars
    /\ \A c \in Calls :
           /\ WF_vars(\E answer \in LiveAnswers : ExistsAnswer(c, answer))
           /\ WF_vars(\E outcome \in LiveOutcomes : IngestAnswer(c, outcome))
           /\ WF_vars(SaveWrite(c))

(***************************************************************************)
(* A process that starts on a cache directory left by earlier processes.   *)
(***************************************************************************)
\* the payload of an earlier save
OldData ==
    [summary |-> "Files: 1", tree |-> "old/", content |-> "old", timestamp |-> 0]

\* what a record found in the directory may hold: nothing (a writer stopped
\* after open), the head of a dump (a writer stopped before its last write),
\* text that is no JSON, the dict {}, a dict with summary and tree only, and
\* a complete dump
StoredTexts ==
    {<< >>,
     <<json_dump(OldData)[1]>>,
     <<CloseBrace>>,
     <<OpenBrace, CloseBrace>>,
     <<json_dump(OldData)[1], CloseBrace>>,
     json_dump(OldData)}

StoredFiles ==
    {NoFile} \cup {[exists |-> TRUE, blocks |-> b, mtime |-> 0] : b \in StoredTexts}

InitStore ==
    /\ now = 0
    /\ ticks = 0
    /\ files \in [Paths -> StoredFiles]
    /\ calls = [c \in Calls |-> Idle]
    /\ started = 0

\* one call at a time on the directory found
NextStore ==
    \/ \E c \in Calls, impl \in Impls, k \in Keys, f \in BOOLEAN :
           Alone(c) /\ GetRepoData(c, impl, k[1], k[2], f)
    \/ \E c \in Calls, answer \in CoreAnswers : ExistsAnswer(c, answer)
    \/ \E c \in Calls, outcome \in CoreOutcomes : IngestAnswer(c, outcome)
    \/ \E c \in Calls : SaveWrite(c)
    \/ \E c \in Calls : Return(c)
    \/ Tick

SpecStore == InitStore /\ [][NextStore]_vars

(***************************************************************************)
(* Properties.                                                             *)
(***************************************************************************)
Done(c) == calls[c].pc = "done"
Failed(c) == Done(c) /\ calls[c].result.kind = "raise"
Succeeded(c) == Done(c) /\ calls[c].result.kind = "return"
\* the call goes (or went) through ingestion and save_to_cache
Fresh(c) == calls[c].wrote > 0

RepoNotFound == RaiseExc(ValueErr("error:repo_not_found"))
RepoPrivate == RaiseExc(ValueErr("error:repo_private"))
RepoTooLarge == RaiseExc(ValueErr("error:repo_too_large"))

\* C1: a call that fails (existence check false, ingestion raises, size
\* gate rejects) has modified no cache file, and the step in which it fails
\* leaves the cache store as it was: what load_from_cache serves for every
\* key, the entry that was valid before the call included, is unchanged.
C1_FailedCallWritesNothing ==
    [][\A c \in Calls :
          (~Done(c) /\ Failed(c)') =>
              /\ calls'[c].wrote = 0
              /\ files' = files
              /\ \A q \in Paths :
                     load_from_cache(files'[q], now') = load_from_cache(files[q], now)
      ]_vars

\* a call has failed for a key whose valid cached entry is still served
C1_Witness ==
    \E c \in Calls :
        /\ Failed(c)
        /\ calls[c].seen.found
        /\ load_from_cache(files[PathOf(c)], now) = calls[c].seen

\* C2: a call with force_refresh = false that finds an unexpired entry for
\* its key returns the cached payload at once, having invoked neither
\* check_repo_exists nor ingest_async and having written no cache file.
C2_HitShortCircuits ==
    \A c \in Calls :
        (calls[c].pc # "idle" /\ ~calls[c].force_refresh /\ calls[c].seen.found) =>
            /\ Done(c)
            /\ calls[c].result = ReturnData(calls[c].seen.data)
            /\ calls[c].ext = << >>
            /\ calls[c].wrote = 0

C2_Witness ==
    \E c \in Calls :
        /\ Done(c) /\ ~calls[c].force_refresh /\ calls[c].seen.found
        /\ calls[c].result = ReturnData(calls[c].seen.data)

\* C3: a call with force_refresh = true does not read the cache: it runs
\* the existence check, and when it succeeds it has run the ingestion and
\* returns the payload built from what ingest_async returned in this call.
C3_ForceBypassesCache ==
    \A c \in Calls :
        (calls[c].pc # "idle" /\ calls[c].force_refresh) =>
            /\ ~calls[c].read
            /\ Len(calls[c].ext) >= 1
            /\ calls[c].ext[1] = "check_repo_exists"
            /\ Succeeded(c) =>
                   /\ calls[c].ext = <<"check_repo_exists", "ingest_async">>
                   /\ calls[c].outcome.kind = "return"
                   /\ calls[c].result.data.summary = calls[c].outcome.triple.summary
                   /\ calls[c].result.data.tree = calls[c].outcome.triple.tree
                   /\ calls[c].result.data.content = calls[c].outcome.triple.content
                   /\ Fresh(c)

\* a forced call has succeeded although a valid entry was cached, and what
\* it returns is not that entry
C3_Witness ==
    \E c \in Calls :
        /\ Succeeded(c) /\ calls[c].force_refresh
        /\ calls[c].seen.found
        /\ calls[c].result.data # calls[c].seen.data

\* C4: in the HTTP service, a summary whose token estimate has the suffix
\* "M" makes get_repo_data fail with exactly error:repo_too_large, the
\* cache not written.
C4_ApiTooLargeCode ==
    \A c \in Calls :
        (/\ calls[c].impl = "api"
         /\ calls[c].pc \in {"write", "done"}
         /\ calls[c].outcome.kind = "return"
         /\ CaseOf(calls[c].outcome.triple.summary).suffix = "M"
         /\ CaseOf(calls[c].outcome.triple.summary).last) =>
            /\ Done(c)
            /\ calls[c].result = RepoTooLarge
            /\ calls[c].wrote = 0

\* C5: the size gate of lib/gitingest_service.py, on a summary that ends in
\* its token estimate or has no label: it rejects with error:repo_too_large
\* exactly when the suffix is "M", or the suffix is "K" and the value is
\* strictly greater than 750; otherwise the call goes on to save and
\* returns the payload.
C5_LibSizeGate ==
    \A c \in Calls :
        (/\ calls[c].impl = "lib"
         /\ calls[c].pc \in {"write", "done"}
         /\ calls[c].outcome.kind = "return") =>
            LET sc == CaseOf(calls[c].outcome.triple.summary)
                tooLarge == /\ sc.label
                            /\ \/ sc.suffix = "M"
                               \/ sc.suffix = "K" /\ sc.num > 750 * sc.den
            IN  ((sc.last \/ ~sc.label) /\ (sc.numeric \/ ~sc.label)) =>
                    /\ tooLarge => calls[c].result = RepoTooLarge /\ Done(c)
                    /\ ~tooLarge => calls[c].result.kind = "return" /\ Fresh(c)

\* the ceiling itself, 750K, was accepted, and 800K was rejected
C5_Witness ==
    \E c \in Calls :
        /\ calls[c].impl = "lib" /\ Succeeded(c)
        /\ calls[c].outcome.triple.summary = "Estimated tokens: 750K"

\* the text of the file is one complete JSON document
Parses(file) ==
    /\ Len(file.blocks) = Len(json_dump(NoData))
    /\ file.blocks[1].part = "head"
    /\ file.blocks[Len(file.blocks)].part = "tail"

\* C6 as stated: load_from_cache is absent exactly when no record exists or
\* the record is 6 hours old or older.
C6_AbsentIffMissingOrExpired ==
    \A q \in Paths :
        (load_from_cache(files[q], now) = Absent)
            <=> (~files[q].exists \/ now - files[q].mtime >= 21600)

\* C6 amended: load_from_cache is absent exactly when no record exists, or
\* the record is 6 hours old or older, or the text of the record is not a
\* complete JSON document; otherwise it returns the record's content.
C6_AbsentIffMissingExpiredOrUnreadable ==
    \A q \in Paths :
        LET got == load_from_cache(files[q], now)
        IN  /\ (got = Absent) <=>
                  \/ ~files[q].exists
                  \/ now - files[q].mtime >= 21600
                  \/ ~Parses(files[q])
            /\ got.found =>
                  /\ got.data.summary = files[q].blocks[1].s1
                  /\ got.data.tree = files[q].blocks[1].s2
                  /\ got.data.content = files[q].blocks[2].s1
                  /\ got.data.timestamp = files[q].blocks[2].n

\* a complete record aged exactly 6 hours is there and is not served
C6_Witness ==
    \E q \in Paths :
        /\ files[q].exists /\ Parses(files[q])
        /\ now - files[q].mtime = 21600
        /\ load_from_cache(files[q], now) = Absent

\* C7: when save_to_cache has run without another writer in between (the
\* calls run one at a time), the file is written at or after the time the
\* payload was built, and until it is 6 hours old load_from_cache returns
\* exactly the payload saved, whatever the file held before.
C7_SaveThenLoad ==
    \A c \in Calls :
        (Succeeded(c) /\ Fresh(c)) =>
            LET file == files[PathOf(c)]
            IN  /\ file.exists
                /\ file.mtime >= calls[c].result.data.timestamp
                /\ file.mtime <= now
                /\ now - file.mtime < 21600 =>
                       load_from_cache(file, now) =
                           [found |-> TRUE, data |-> calls[c].result.data]

\* a save has replaced a different valid entry and its payload is served
C7_Witness ==
    \E c \in Calls :
        /\ Succeeded(c) /\ Fresh(c)
        /\ calls[c].seen.found
        /\ calls[c].seen.data # calls[c].result.data
        /\ calls[c].result.data.timestamp > 0
        /\ load_from_cache(files[PathOf(c)], now) =
               [found |-> TRUE, data |-> calls[c].result.data]

\* C8: a call that does not return from the cache invokes
\* check_repo_exists first and ingest_async only after the GET answered
\* with status 200; when the check is false the call fails with
\* error:repo_not_found and ingest_async was not invoked.
C8_CheckBeforeIngest ==
    \A c \in Calls :
        /\ calls[c].ext \in {<< >>, <<"check_repo_exists">>,
                             <<"check_repo_exists", "ingest_async">>}
        /\ calls[c].ext = << >> =>
               \/ calls[c].pc = "idle"
               \/ Done(c) /\ calls[c].read /\ calls[c].seen.found
        /\ Len(calls[c].ext) = 2 =>
               calls[c].answer = [kind |-> "status", status |-> 200]
        /\ (/\ calls[c].answer.kind # "none"
            /\ calls[c].answer # [kind |-> "status", status |-> 200]) =>
               /\ Done(c)
               /\ calls[c].result = RepoNotFound
               /\ calls[c].ext = <<"check_repo_exists">>

C8_Witness ==
    \E c \in Calls :
        /\ Done(c)
        /\ calls[c].answer = [kind |-> "status", status |-> 404]
        /\ calls[c].result = RepoNotFound
        /\ calls[c].ext = <<"check_repo_exists">>

\* the messages that contain "bad credentials" in some letter case and do
\* not contain "not found"
BadCredentialsOnly ==
    {e \in IngestErrors :
        /\ Contains(Lower(e.msg), "bad credentials")
        /\ ~Contains(Lower(e.msg), "not found")}

\* C9: in lib/gitingest_service.py an ingestion error whose message
\* contains "bad credentials" in any letter case, and not "not found",
\* makes get_repo_data fail with error:repo_private.
C9_LibBadCredentialsAnyCase ==
    \A c \in Calls :
        (/\ calls[c].impl = "lib" /\ Done(c)
         /\ calls[c].outcome.kind = "raise"
         /\ calls[c].outcome.exc \in BadCredentialsOnly) =>
            calls[c].result = RepoPrivate

\* C10: in lib/gitingest_service.py every failure of get_repo_data caused
\* by the ingestion step is error:repo_not_found, error:repo_private,
\* error:repo_too_large, or a processing error that carries the original
\* message; the exception raised by ingest_async is never raised as it is.
C10_LibClosedErrorSet ==
    \A c \in Calls :
        (/\ calls[c].impl = "lib" /\ Failed(c)
         /\ Len(calls[c].ext) = 2) =>
            \/ calls[c].result \in {RepoNotFound, RepoPrivate, RepoTooLarge}
            \/ /\ calls[c].outcome.kind = "raise"
               /\ calls[c].result =
                      RaiseExc(ValueErr("processing_error: "
                                            \o calls[c].outcome.exc.msg))

\* a dict with the fields of a payload
IsRecord(cached_data) ==
    /\ cached_data.found
    /\ {"summary", "tree", "content"} \subseteq DOMAIN cached_data.data

\* C11: a call with force_refresh = false whose key holds no record with
\* summary, tree and content when it is read (missing, expired, unparseable,
\* truncated, or a JSON value that is no such record) is a cache miss: the
\* call runs the existence check, and when it succeeds it returns the
\* payload of its own ingestion, never what the store held.
C11_CorruptRecordIsMiss ==
    \A c \in Calls :
        (/\ calls[c].pc # "idle" /\ ~calls[c].force_refresh
         /\ ~IsRecord(calls[c].seen)) =>
            /\ Len(calls[c].ext) >= 1
            /\ calls[c].ext[1] = "check_repo_exists"
            /\ Succeeded(c) => Fresh(c)

\* calls c and d are for the same repository identity
SameKey(c, d) ==
    /\ calls[c].username = calls[d].username
    /\ calls[c].repo = calls[d].repo

\* C12: two concurrent calls that both miss the cache for the same key each
\* run their own existence check and ingestion and each write the cache,
\* and when the second of them finishes, the cache entry of the key holds
\* the payload of that call (last-to-finish wins).
C12_LastToFinishWins ==
    /\ [](\A c \in Calls :
             (Succeeded(c) /\ calls[c].ext # << >>) =>
                 /\ calls[c].ext = <<"check_repo_exists", "ingest_async">>
                 /\ Fresh(c))
    /\ [][\A c \in Calls : \A d \in Calls \ {c} :
             (/\ SameKey(c, d)
              /\ Succeeded(d) /\ Fresh(d)
              /\ calls[c].pc = "write" /\ Succeeded(c)') =>
                 load_from_cache(files'[PathOf(c)], now') =
                     [found |-> TRUE, data |-> calls'[c].result.data]
         ]_vars

\* the payloads get_repo_data can pass to save_to_cache
Payloads ==
    {[summary   |-> o.triple.summary,
      tree      |-> o.triple.tree,
      content   |-> o.triple.content,
      timestamp |-> 0] : o \in {x \in IngestOutcomes : x.kind = "return"}}

\* a save_to_cache is under way on path q
Writing(q) == \E c \in Calls : calls[c].pc = "write" /\ PathOf(c) = q

\* C13: under every interleaving of saves and loads on one key, the writers
\* in separate processes included, load_from_cache returns absent or a
\* complete payload that was passed to save_to_cache, never a mixture of
\* two payloads, and once the writers have finished the record stored is
\* one writer's complete payload. (The clock stands at 0 in Spec, so every
\* payload saved is in Payloads.)
C13_NoTornRecord ==
    \A q \in Paths :
        /\ load_from_cache(files[q], now).found =>
               load_from_cache(files[q], now).data \in Payloads
        /\ (files[q].exists /\ ~Writing(q)) =>
               /\ json_load(files[q].blocks).ok
               /\ json_load(files[q].blocks).data \in Payloads

\* C14: cache records are isolated per repository identity: a step of
\* save_to_cache for one (username, repo) leaves what load_from_cache
\* returns for every other identity unchanged.
C14_RecordsIsolated ==
    [][\A c \in Calls :
          calls'[c].wrote > calls[c].wrote =>
              \A k \in Keys \ {<<calls[c].username, calls[c].repo>>} :
                  load_from_cache(files'[get_cache_path(k[1], k[2])], now') =
                      load_from_cache(files[get_cache_path(k[1], k[2])], now)
      ]_vars

\* the messages that contain "not found" in some letter case
SaysNotFound ==
    {e \in IngestErrors : Contains(Lower(e.msg), "not found")}

\* the messages that contain "bad credentials" or "rate limit" in some
\* letter case
SaysAccessDenied ==
    {e \in IngestErrors :
        \/ Contains(Lower(e.msg), "bad credentials")
        \/ Contains(Lower(e.msg), "rate limit")}

\* C15: the not-found rule is tried before the access-denied rule: an
\* ingestion error whose message contains "not found" and also "bad
\* credentials" or "rate limit" fails the call with error:repo_not_found,
\* and error:repo_private is the result only of messages that do not
\* contain "not found".
C15_NotFoundRuleFirst ==
    \A c \in Calls :
        (Done(c) /\ calls[c].outcome.kind = "raise") =>
            /\ calls[c].outcome.exc \in SaysNotFound \cap SaysAccessDenied =>
                   calls[c].result = RepoNotFound
            /\ calls[c].result = RepoPrivate =>
                   calls[c].outcome.exc \notin SaysNotFound

\* C16: check_repo_exists is true only when its one GET completes with
\* status 200. On every other status and on every failure of the GET it is
\* false without raising: the call, which issued the GET once, ends with
\* error:repo_not_found, ingest_async not invoked and no cache file
\* written; the step that takes the answer never leads back to the check.
C16_ExistsOnlyOn200 ==
    /\ [](\A c \in Calls :
             calls[c].answer.kind # "none" =>
                 IF calls[c].answer = [kind |-> "status", status |-> 200]
                 THEN calls[c].ext = <<"check_repo_exists", "ingest_async">>
                 ELSE /\ Failed(c)
                      /\ calls[c].result.exc = ValueErr("error:repo_not_found")
                      /\ calls[c].ext = <<"check_repo_exists">>
                      /\ calls[c].wrote = 0)
    /\ [][\A c \in Calls :
             calls[c].pc = "check" => calls'[c].pc \in {"check", "ingest", "done"}
         ]_vars
    /\ [][\A c \in Calls :
             calls[c].pc # "check" => calls'[c].pc # "check" \/ calls[c].pc = "idle"
         ]_vars

\* the GET failed (timeout, DNS failure, connection refused) and the call
\* has ended with error:repo_not_found
C16_Witness ==
    \E c \in Calls :
        /\ Done(c)
        /\ calls[c].answer.kind = "raise"
        /\ calls[c].result = RepoNotFound
        /\ calls[c].ext = <<"check_repo_exists">>

\* C17: load_from_cache is read-only. The step in which a call looks its
\* key up (the record present, absent, expired or corrupt) leaves every
\* record and every modification time as they were; a record that is 6
\* hours old is still there and is not served, however it was read before.
C17_LoadIsReadOnly ==
    /\ [][\A c \in Calls :
             (calls[c].pc = "idle" /\ calls'[c].pc # "idle") => files' = files
         ]_vars
    /\ [](\A q \in Paths :
             (files[q].exists /\ now - files[q].mtime >= 21600) =>
                 load_from_cache(files[q], now) = Absent)
    /\ [](\A c \in Calls :
             (Done(c) /\ calls[c].read /\ calls[c].ext = << >>) =>
                 /\ files[PathOf(c)].exists
                 /\ json_load(files[PathOf(c)].blocks).data = calls[c].result.data)

\* a call was served a record one second before its 6 hours were over, and
\* at 6 hours the record is still there, unchanged, and no longer served
C17_Witness ==
    \E c \in Calls :
        /\ Done(c) /\ calls[c].read /\ calls[c].ext = << >>
        /\ files[PathOf(c)].exists
        /\ json_load(files[PathOf(c)].blocks).data = calls[c].result.data
        /\ now - files[PathOf(c)].mtime = 21600
        /\ load_from_cache(files[PathOf(c)], now) = Absent

\* C18: the size gate decides on the value and the suffix of the token line
\* alone: a summary whose token line has the suffix "M", or "K" with a
\* value above 750, is rejected as too large (the call fails and writes no
\* cache file) whether or not the summary goes on after that line.
C18_GateReadsTokenLineOnly ==
    \A c \in Calls :
        (/\ calls[c].pc \in {"write", "done"}
         /\ calls[c].outcome.kind = "return"
         /\ CaseOf(calls[c].outcome.triple.summary).label
         /\ CaseOf(calls[c].outcome.triple.summary).numeric) =>
            LET sc == CaseOf(calls[c].outcome.triple.summary)
            IN  (\/ sc.suffix = "M"
                 \/ sc.suffix = "K" /\ sc.num > 750 * sc.den) =>
                    /\ Failed(c)
                    /\ calls[c].wrote = 0
                    /\ calls[c].result.exc \in
                           {ValueErr("error:repo_too_large"),
                            ValueErr("processing_error: error:repo_too_large")}

\* the token line of the summary is its last line and is over the ceiling
OverCeiling(summary) ==
    LET sc == CaseOf(summary)
    IN  /\ sc.label /\ sc.numeric /\ sc.last
        /\ \/ sc.suffix = "M"
           \/ sc.suffix = "K" /\ sc.num > 750 * sc.den

\* C19: through the HTTP app, a call that does not end in a payload is
\* answered 404 when the repository is not found (existence check false, or
\* ingestion error saying "not found"), 403 when the ingestion error says
\* "bad credentials" or "rate limit", 400 when the token estimate is over
\* the ceiling, and 500 only for other processing failures.
C19_HttpStatusOfErrors ==
    \A c \in Calls :
        (calls[c].impl = "api" /\ Done(c) /\ calls[c].answer.kind # "none") =>
            LET status   == collect_repo_data(calls[c].result)
                o        == calls[c].outcome
                missing  == \/ calls[c].ext = <<"check_repo_exists">>
                            \/ o.kind = "raise" /\ o.exc \in SaysNotFound
                denied   == /\ Len(calls[c].ext) = 2 /\ o.kind = "raise"
                            /\ o.exc \in SaysAccessDenied \ SaysNotFound
                tooLarge == /\ Len(calls[c].ext) = 2 /\ o.kind = "return"
                            /\ OverCeiling(o.triple.summary)
            IN  /\ missing => status = 404
                /\ denied => status = 403
                /\ tooLarge => status = 400
                /\ status = 500 => ~(missing \/ denied \/ tooLarge)

\* C20: every call that has started ends with a payload or an error, given
\* that ingest_async returns or raises; a call whose GET got no response
\* (the GET ends in a timeout) ends with error:repo_not_found.
C20_EveryCallEnds ==
    /\ \A c \in Calls : (calls[c].pc # "idle") ~> Done(c)
    /\ [](\A c \in Calls :
             calls[c].answer.kind = "raise" =>
                 Done(c) /\ calls[c].result = RepoNotFound)

\* every call of the run was started, one of them met a GET without
\* response, and all of them have ended
C20_Witness ==
    /\ started = MaxCalls
    /\ \A c \in Calls : calls[c].pc \in {"idle", "done"}
    /\ \E c \in Calls :
           /\ Done(c) /\ calls[c].answer.kind = "raise"
           /\ calls[c].result = RepoNotFound

\* the fields of a cache record
RecordFields == {"summary", "tree", "content", "timestamp"}

\* C21: over every sequence of calls that starts from an empty cache, a
\* cache file is modified only by a call whose existence check got status
\* 200 and whose ingestion returned and was let through by the size gate;
\* whenever no save is under way every record of the store has the fields
\* summary, tree, content and timestamp, the record a finished save leaves
\* is the payload of that ingestion, and every successful return, fresh or
\* from the cache, has summary, tree and content.
C21_StoreHoldsGatedRecords ==
    /\ [][\A c \in Calls :
             calls'[c].wrote > calls[c].wrote =>
                 /\ calls'[c].answer = [kind |-> "status", status |-> 200]
                 /\ calls'[c].ext = <<"check_repo_exists", "ingest_async">>
                 /\ calls'[c].outcome.kind = "return"
                 /\ IngestTable[calls'[c].impl][calls'[c].outcome].kind = "return"
                 /\ \A q \in Paths \ {get_cache_path(calls'[c].username,
                                                     calls'[c].repo)} :
                        files'[q] = files[q]
                 /\ Done(c)' =>
                        LET got == json_load(files'[PathOf(c)].blocks).data
                        IN  /\ got.summary = calls'[c].outcome.triple.summary
                            /\ got.tree = calls'[c].outcome.triple.tree
                            /\ got.content = calls'[c].outcome.triple.content
         ]_vars
    /\ [][files' # files =>
             \E c \in Calls : calls'[c].wrote > calls[c].wrote]_vars
    /\ [](\A q \in Paths :
             (files[q].exists /\ ~Writing(q)) =>
                 /\ json_load(files[q].blocks).ok
                 /\ DOMAIN json_load(files[q].blocks).data = RecordFields)
    /\ [](\A c \in Calls :
             Succeeded(c) =>
                 {"summary", "tree", "content"} \subseteq DOMAIN calls[c].result.data)

\* a call was served from the cache the record an earlier call of the run
\* saved, and the record stored is that payload with all of its fields
C21_Witness ==
    \E c \in Calls :
        /\ Succeeded(c) /\ calls[c].read /\ calls[c].ext = << >>
        /\ started = 2
        /\ DOMAIN calls[c].result.data = RecordFields
        /\ json_load(files[PathOf(c)].blocks).data = calls[c].result.data

====
